---- MODULE Spec2Model ----
(***************************************************************************)
(* rust_cmd_arg (src/src/lib.rs): the parameter registry of                *)
(* CommandLineProcessor and the token loop of parse_command_line.          *)
(*                                                                         *)
(* Strings are sequences of one-character strings, so that alias           *)
(* derivation ("/" + name, "--" + name), emptiness tests and the           *)
(* string-to-value conversions are computed character by character.        *)
(***************************************************************************)
EXTENDS Integers, Sequences, FiniteSets, TLC

(***************************************************************************)
(* Bounds of the model.                                                    *)
(***************************************************************************)
\* at most this many registration calls before parse_command_line
MaxRegs == 2
\* env::args() holds at most this many tokens after the executable name
MaxArgs == 3

(***************************************************************************)
(* Strings and tokens.                                                     *)
(***************************************************************************)
NameA == <<"a">>
NameB == <<"b">>

TokHelp    == <<"-", "-", "h", "e", "l", "p">>
TokH       == <<"-", "-", "h">>
TokVersion == <<"-", "-", "v", "e", "r", "s", "i", "o", "n">>
TokV       == <<"-", "-", "v">>
TokX       == <<"-", "x">>
TokSlashB  == <<"/", "b">>
TokDashA   == <<"-", "-", "a">>
TokDashB   == <<"-", "-", "b">>
TokEmpty   == <<>>
TokPlus07  == <<"+", "0", "7">>
TokTrue    == <<"t", "r", "u", "e">>
TokFalse   == <<"f", "a", "l", "s", "e">>
TokOneFive == <<"1", ".", "5">>
TokZero    == <<"0">>
TokD       == <<"d">>
\* i64::MAX and i64::MAX + 1 in decimal
TokI64Max  == <<"9","2","2","3","3","7","2","0","3","6","8","5","4","7","7","5","8","0","7">>
TokI64Over == <<"9","2","2","3","3","7","2","0","3","6","8","5","4","7","7","5","8","0","8">>
\* the magnitude of i64::MIN
TokI64MinMag == TokI64Over

\* the tokens env::args() may hold
Tokens ==
    { TokHelp, TokH, TokVersion, TokV, TokX, TokDashA, TokDashB,
      TokEmpty, TokPlus07, TokI64Max, TokI64Over, TokTrue, TokOneFive }

(***************************************************************************)
(* ParameterType and ParameterValue.  A value is [tag, val]; val is the    *)
(* payload in its canonical textual form (the empty string for None and    *)
(* Flag).                                                                  *)
(***************************************************************************)
ParameterType == {"Flag", "Integer", "Float", "Path", "String", "Bool"}

PVNone       == [tag |-> "None", val |-> <<>>]
PVFlag       == [tag |-> "Flag", val |-> <<>>]
PVInteger(v) == [tag |-> "Integer", val |-> v]
PVFloat(v)   == [tag |-> "Float", val |-> v]
\* a Path value carrying the tag of a String
PVPathTaggedString(v) == [tag |-> "String", val |-> v]
PVPath(v)    == [tag |-> "Path", val |-> v]
PVString(v)  == [tag |-> "String", val |-> v]
PVBool(v)    == [tag |-> "Bool", val |-> v]

is_none(v) == v.tag = "None"

Ok(v)  == [ok |-> TRUE, val |-> v, err |-> "none"]
Err(e) == [ok |-> FALSE, val |-> <<>>, err |-> e]

(***************************************************************************)
(* str::parse::<i64>, ::<f64>, ::<bool>.                                   *)
(***************************************************************************)
DigitChars == <<"0", "1", "2", "3", "4", "5", "6", "7", "8", "9">>
IsDigit(c) == \E i \in DOMAIN DigitChars : DigitChars[i] = c
DigitVal(c) == (CHOOSE i \in DOMAIN DigitChars : DigitChars[i] = c) - 1

AllDigits(s) == \A i \in DOMAIN s : IsDigit(s[i])

RECURSIVE StripLeadingZeros(_)
StripLeadingZeros(s) ==
    IF Len(s) > 1 /\ Head(s) = "0" THEN StripLeadingZeros(Tail(s)) ELSE s

RECURSIVE StripTrailingZeros(_)
StripTrailingZeros(s) ==
    IF Len(s) > 0 /\ s[Len(s)] = "0"
    THEN StripTrailingZeros(SubSeq(s, 1, Len(s) - 1))
    ELSE s

\* m > lim for two digit strings without leading zeros
MagGreater(m, lim) ==
    \/ Len(m) > Len(lim)
    \/ /\ Len(m) = Len(lim)
       /\ \E i \in DOMAIN m :
            /\ \A j \in 1..(i - 1) : m[j] = lim[j]
            /\ DigitVal(m[i]) > DigitVal(lim[i])

\* a parse that does not check the range
ParseI64Unchecked(s) ==
    IF Len(s) = 0 THEN Err("Empty")
    ELSE
      LET neg  == Head(s) = "-"
          body == IF Head(s) \in {"+", "-"} THEN Tail(s) ELSE s
      IN  IF Len(body) = 0 \/ ~AllDigits(body) THEN Err("InvalidDigit")
          ELSE
            LET mag == StripLeadingZeros(body)
            IN  IF neg /\ mag # TokZero THEN Ok(<<"-">> \o mag) ELSE Ok(mag)

ParseI64(s) ==
    IF Len(s) = 0 THEN Err("Empty")
    ELSE
      LET neg  == Head(s) = "-"
          body == IF Head(s) \in {"+", "-"} THEN Tail(s) ELSE s
      IN  IF Len(body) = 0 \/ ~AllDigits(body) THEN Err("InvalidDigit")
          ELSE
            LET mag == StripLeadingZeros(body)
            IN  IF neg
                THEN IF MagGreater(mag, TokI64MinMag) THEN Err("NegOverflow")
                     ELSE IF mag = TokZero THEN Ok(mag) ELSE Ok(<<"-">> \o mag)
                ELSE IF MagGreater(mag, TokI64Max) THEN Err("PosOverflow")
                     ELSE Ok(mag)

\* decimal literals [+-]digits[.digits] (no exponent, inf or nan: no token of
\* the model has one); the value is the literal without sign "+", leading
\* zeros and trailing fraction zeros
ParseF64(s) ==
    IF Len(s) = 0 THEN Err("Empty")
    ELSE
      LET neg    == Head(s) = "-"
          body   == IF Head(s) \in {"+", "-"} THEN Tail(s) ELSE s
          dots   == {i \in DOMAIN body : body[i] = "."}
          dot    == IF dots = {} THEN Len(body) + 1
                    ELSE CHOOSE i \in dots : \A j \in dots : i <= j
          ipart  == SubSeq(body, 1, dot - 1)
          fpart  == SubSeq(body, dot + 1, Len(body))
      IN  IF \/ Len(ipart) + Len(fpart) = 0
             \/ ~AllDigits(ipart)
             \/ ~AllDigits(fpart)
          THEN Err("Invalid")
          ELSE
            LET i2 == IF Len(ipart) = 0 THEN TokZero ELSE StripLeadingZeros(ipart)
                f2 == StripTrailingZeros(fpart)
                m  == IF Len(f2) = 0 THEN i2 ELSE i2 \o <<".">> \o f2
            IN  IF neg THEN Ok(<<"-">> \o m) ELSE Ok(m)

ParseBool(s) ==
    IF s = TokTrue THEN Ok(TokTrue)
    ELSE IF s = TokFalse THEN Ok(TokFalse)
    ELSE Err("ParseBoolError")

(***************************************************************************)
(* ParameterValue::to_*_value and Parameter::to_*_value.                   *)
(***************************************************************************)
ParameterValue_to_int_value(v) ==
    IF v.tag = "Integer" THEN Ok(v.val) ELSE Err("wrong value type")
ParameterValue_to_float_value(v) ==
    IF v.tag = "Float" THEN Ok(v.val) ELSE Err("wrong value type")
ParameterValue_to_path_value(v) ==
    IF v.tag = "Path" THEN Ok(v.val) ELSE Err("wrong value type")
ParameterValue_to_string_value(v) ==
    IF v.tag = "String" THEN Ok(v.val) ELSE Err("wrong value type")
ParameterValue_to_bool_value(v) ==
    IF v.tag = "Bool" THEN Ok(v.val) ELSE Err("wrong value type")

\* to_int_value without the allow_empty test
to_int_value_NoneIsZero(p) ==
    IF is_none(p.value)
    THEN Ok(TokZero)
    ELSE ParameterValue_to_int_value(p.value)

to_int_value(p) ==
    IF is_none(p.value)
    THEN IF p.allow_empty THEN Ok(TokZero) ELSE Err("is None Value")
    ELSE ParameterValue_to_int_value(p.value)
to_float_value(p) ==
    IF is_none(p.value)
    THEN IF p.allow_empty THEN Ok(TokZero) ELSE Err("is None Value")
    ELSE ParameterValue_to_float_value(p.value)
to_path_value(p) ==
    IF is_none(p.value)
    THEN IF p.allow_empty THEN Ok(<<>>) ELSE Err("is None Value")
    ELSE ParameterValue_to_path_value(p.value)
to_string_value(p) ==
    IF is_none(p.value)
    THEN IF p.allow_empty THEN Ok(<<>>) ELSE Err("is None Value")
    ELSE ParameterValue_to_string_value(p.value)
to_bool_value(p) ==
    IF is_none(p.value)
    THEN IF p.allow_empty THEN Ok(TokFalse) ELSE Err("is None Value")
    ELSE ParameterValue_to_bool_value(p.value)

Accessors == {"to_int_value", "to_float_value", "to_path_value",
              "to_string_value", "to_bool_value"}

CallAccessor(kind, p) ==
    CASE kind = "to_int_value"    -> to_int_value(p)
      [] kind = "to_float_value"  -> to_float_value(p)
      [] kind = "to_path_value"   -> to_path_value(p)
      [] kind = "to_string_value" -> to_string_value(p)
      [] kind = "to_bool_value"   -> to_bool_value(p)

(***************************************************************************)
(* The state.                                                              *)
(*   heap        every Parameter allocated by a registration call (the     *)
(*               Rc<Parameter> objects); a handle is an index into it      *)
(*   parameters  CommandLineProcessor.parameters: name -> Rc<Parameter>    *)
(*   abort_flag  CommandLineProcessor.abort_flag                           *)
(*   order       the order in which the HashMap is iterated                *)
(*   pos, ended  the iterator over env::args(): tokens returned so far,    *)
(*               and whether it has returned None                          *)
(*   arg, idx, parameter_exists                                            *)
(*               locals of the token loop: the token under examination,    *)
(*               the position of the inner for loop in order               *)
(*   report      what the last step printed                                *)
(*   pc          where the program is; exit_code the status it ended with  *)
(*   result      what the last accessor call returned                      *)
(***************************************************************************)
VARIABLES heap, parameters, abort_flag, order, pos, ended, arg, idx,
          parameter_exists, report, pc, exit_code, result

vars == <<heap, parameters, abort_flag, order, pos, ended, arg, idx,
          parameter_exists, report, pc, exit_code, result>>

\* no token under examination (not a string of characters)
NoArg == <<"NoArg">>
NoResult == [kind |-> "none", handle |-> 0, ret |-> Ok(<<>>)]

\* std::process::exit(-1), std::process::exit(-2), and the status of a
\* process ended by panic!
ExitAbort == -1
ExitMissing == -2
ExitPanic == 101

Init ==
    /\ heap = <<>>
    /\ parameters = <<>>
    /\ abort_flag = FALSE
    /\ order = <<>>
    /\ pos = 0
    /\ ended = FALSE
    /\ arg = NoArg
    /\ idx = 0
    /\ parameter_exists = FALSE
    /\ report = "none"
    /\ pc = "config"
    /\ exit_code = 0
    /\ result = NoResult

(***************************************************************************)
(* Registration.                                                           *)
(***************************************************************************)
Call(n, t, ae, d, al) ==
    [parameter_name |-> n, parameter_type |-> t, allow_empty |-> ae,
     default_value |-> d, aliases |-> al]

\* the registration calls a caller makes: under name a every value-taking
\* type, required and optional, and a required Flag, each with the extra
\* alias -x; under name b an optional String with a default, which shares
\* -x with them and whose alias list already names --b once and /b twice
RegCalls ==
    { Call(NameA, t, ae, PVNone, <<TokX>>) :
        t \in ParameterType \ {"Flag"}, ae \in BOOLEAN }
    \cup
    { Call(NameA, "Flag", FALSE, PVNone, <<TokX>>),
      Call(NameB, "String", TRUE, PVString(TokD),
           <<TokX, TokDashB, TokSlashB, TokSlashB>>) }

Contains(aliases, a) == \E i \in DOMAIN aliases : aliases[i] = a

\* the two canonical aliases pushed without looking at the list
PushAlways(parameter_name, aliases) ==
    Append(Append(aliases, <<"/">> \o parameter_name),
           <<"-", "-">> \o parameter_name)

\* lines 235-242: push "/name" and "--name" unless already there
PushCanonicalAliases(parameter_name, aliases) ==
    LET alias1 == <<"/">> \o parameter_name
        alias2 == <<"-", "-">> \o parameter_name
        with1  == IF Contains(aliases, alias1) = FALSE
                  THEN Append(aliases, alias1) ELSE aliases
    IN  IF Contains(with1, alias2) = FALSE
        THEN Append(with1, alias2) ELSE with1

NewParameter(c) ==
    [parameter_name |-> c.parameter_name,
     parameter_type |-> c.parameter_type,
     aliases        |-> PushCanonicalAliases(c.parameter_name, c.aliases),
     allow_empty    |-> c.allow_empty,
     default_value  |-> c.default_value,
     value          |-> c.default_value]

\* an insert that keeps the entry a name already has
InsertKeepsFirst(map, name, h) ==
    [n \in (DOMAIN map) \cup {name} |-> IF n \in DOMAIN map THEN map[n] ELSE h]

\* HashMap::insert: the slot of the name now holds the new Rc
Insert(map, name, h) ==
    [n \in (DOMAIN map) \cup {name} |-> IF n = name THEN h ELSE map[n]]

add_parameter_detail(c) ==
    /\ pc = "config"
    /\ Len(heap) < MaxRegs
    /\ heap' = Append(heap, NewParameter(c))
    /\ parameters' = Insert(parameters, c.parameter_name, Len(heap) + 1)
    /\ result' = NoResult
    /\ UNCHANGED <<abort_flag, order, pos, ended, arg, idx,
                   parameter_exists, report, pc, exit_code>>

\* CommandLineProcessor::get_parameter_value
get_parameter_value(parameter_name) ==
    IF parameter_name \in DOMAIN parameters
    THEN [some |-> TRUE, value |-> heap[parameters[parameter_name]].value]
    ELSE [some |-> FALSE, value |-> PVNone]

\* a typed accessor called on a handle, before parse or after it returned;
\* result holds what it returned until the caller has used it
Access(h, kind) ==
    /\ pc \in {"config", "returned"}
    /\ result = NoResult
    /\ result' = [kind |-> kind, handle |-> h, ret |-> CallAccessor(kind, heap[h])]
    /\ UNCHANGED <<heap, parameters, abort_flag, order, pos, ended, arg, idx,
                   parameter_exists, report, pc, exit_code>>

\* the caller has used the value an accessor returned (lines 22-23)
ResultUsed ==
    /\ pc \in {"config", "returned"}
    /\ result # NoResult
    /\ result' = NoResult
    /\ UNCHANGED <<heap, parameters, abort_flag, order, pos, ended, arg, idx,
                   parameter_exists, report, pc, exit_code>>

(***************************************************************************)
(* parse_command_line: the token loop.                                     *)
(***************************************************************************)
Perms(S) ==
    {f \in [1..Cardinality(S) -> S] : \A i, j \in DOMAIN f : f[i] = f[j] => i = j}

\* lines 299-301
ParseStart ==
    /\ pc = "config"
    /\ pc' = "loop"
    /\ order' \in Perms(DOMAIN parameters)
    /\ result' = NoResult
    /\ UNCHANGED <<heap, parameters, abort_flag, pos, ended, arg, idx,
                   parameter_exists, report, exit_code>>

\* iter.next() returns Some(val): one more token of env::args()
NextSome ==
    /\ ended = FALSE
    /\ pos < MaxArgs
    /\ pos' = pos + 1
    /\ ended' = ended

\* iter.next() returns None
NextNone ==
    /\ pos' = pos
    /\ ended' = TRUE

\* lines 304, 508: the argument list is exhausted
LoopEnd ==
    /\ pc = "loop"
    /\ NextNone
    /\ pc' = "after_loop"
    /\ report' = "none"
    /\ UNCHANGED <<heap, parameters, abort_flag, order, arg, idx,
                   parameter_exists, exit_code, result>>

\* Control without its break: the token loop goes on
ControlNoBreak(token, printed) ==
    /\ pc = "loop"
    /\ NextSome
    /\ token \in Tokens
    /\ abort_flag' = TRUE
    /\ report' = printed
    /\ pc' = "loop"
    /\ UNCHANGED <<heap, parameters, order, arg, idx, parameter_exists,
                   exit_code, result>>

\* lines 306-325: a control token prints, sets the abort flag and breaks
Control(token, printed) ==
    /\ pc = "loop"
    /\ NextSome
    /\ token \in Tokens
    /\ abort_flag' = TRUE
    /\ report' = printed
    /\ pc' = "after_loop"
    /\ UNCHANGED <<heap, parameters, order, arg, idx, parameter_exists,
                   exit_code, result>>

MatchHelp    == Control(TokHelp, "help")
MatchH       == Control(TokH, "help")
MatchVersion == Control(TokVersion, "version")
MatchV       == Control(TokV, "version")

ControlTokens == {TokHelp, TokH, TokVersion, TokV}

\* line 330 for the parameter at position i of the iteration
MatchesAt(i, a) == Contains(heap[parameters[order[i]]].aliases, a)

\* lines 329-330: the first parameter after position i whose alias list
\* holds a (0 when there is none); the parameters in between fail the test
\* of line 330 and are passed over
NextMatch(i, a) ==
    LET later == {j \in DOMAIN order : j > i /\ MatchesAt(j, a)}
    IN  IF later = {} THEN 0
        ELSE CHOOSE j \in later : \A k \in later : j <= k

\* lines 326-330: a token that is no control token; the for loop runs up to
\* the first parameter with that alias, and when no parameter has it, lines
\* 501-505 report an unknown parameter
MatchArg ==
    /\ pc = "loop"
    /\ NextSome
    /\ \E a \in Tokens \ ControlTokens :
         IF NextMatch(0, a) # 0
         THEN /\ arg' = a
              /\ parameter_exists' = FALSE
              /\ idx' = NextMatch(0, a)
              /\ pc' = "for"
              /\ report' = "none"
              /\ UNCHANGED abort_flag
         ELSE /\ report' = "Unknown parameter"
              /\ abort_flag' = TRUE
              /\ pc' = "after_loop"
              /\ UNCHANGED <<arg, idx, parameter_exists>>
    /\ UNCHANGED <<heap, parameters, order, exit_code, result>>

\* the parameter the inner for loop is at
CurH == parameters[order[idx]]
Cur == heap[CurH]
\* line 330
Matches == Contains(Cur.aliases, arg)

\* lines 501-506 with parameter_exists set: on to the next token
BackToLoop ==
    /\ pc' = "loop"
    /\ arg' = NoArg
    /\ idx' = 0
    /\ parameter_exists' = FALSE

\* the for loop goes on, up to the next parameter with the alias; when there
\* is none it ends, and line 501 finds parameter_exists set
Continue ==
    IF NextMatch(idx, arg) # 0
    THEN /\ pc' = "for"
         /\ idx' = NextMatch(idx, arg)
         /\ arg' = arg
         /\ parameter_exists' = TRUE
    ELSE BackToLoop

\* break leaves the for loop; line 501 finds parameter_exists set
Break == BackToLoop

Stored(v) ==
    /\ heap' = [heap EXCEPT ![CurH].value = v]
    /\ report' = "none"
    /\ UNCHANGED abort_flag

Untouched ==
    /\ report' = "none"
    /\ UNCHANGED <<heap, abort_flag>>

Failed(printed) ==
    /\ report' = printed
    /\ abort_flag' = TRUE
    /\ UNCHANGED heap

\* an arm of the match on parameter_type has been entered
InArm(type) ==
    /\ pc = "for"
    /\ Matches
    /\ Cur.parameter_type = type

\* lines 334-336
FlagArm ==
    /\ InArm("Flag")
    /\ Stored(PVFlag)
    /\ Continue
    /\ UNCHANGED <<parameters, order, pos, ended, exit_code, result>>

\* lines 337-364: iter.next() returned Some(val)
IntegerArmSome(val) ==
    /\ InArm("Integer")
    /\ NextSome
    /\ IF Len(val) = 0 /\ Cur.allow_empty = FALSE
       THEN Failed("No value passed") /\ Break
       ELSE IF ParseI64(val).ok
            THEN Stored(PVInteger(ParseI64(val).val)) /\ Continue
            ELSE Failed("Unable to convert to integer") /\ Break
    /\ UNCHANGED <<parameters, order, exit_code, result>>

\* lines 365-371: iter.next() returned None
IntegerArmNone ==
    /\ InArm("Integer")
    /\ NextNone
    /\ IF Cur.allow_empty = FALSE
       THEN Failed("No value passed") /\ Break
       ELSE Untouched /\ Continue
    /\ UNCHANGED <<parameters, order, exit_code, result>>

IntegerArm ==
    \/ \E val \in Tokens : IntegerArmSome(val)
    \/ IntegerArmNone

\* lines 373-401
FloatArmSome(val) ==
    /\ InArm("Float")
    /\ NextSome
    /\ IF Len(val) = 0
       THEN IF Cur.allow_empty = FALSE
            THEN Failed("No value passed") /\ Break
            ELSE Untouched /\ Continue
       ELSE IF ParseF64(val).ok
            THEN Stored(PVFloat(ParseF64(val).val)) /\ Continue
            ELSE Failed("Unable to convert to float") /\ Break
    /\ UNCHANGED <<parameters, order, exit_code, result>>

\* lines 402-406: panic! ends the process
FloatArmNone ==
    /\ InArm("Float")
    /\ NextNone
    /\ IF Cur.allow_empty = FALSE
       THEN /\ pc' = "panicked"
            /\ exit_code' = ExitPanic
            /\ report' = "panic"
            /\ UNCHANGED <<heap, abort_flag, arg, idx, parameter_exists>>
       ELSE Untouched /\ Continue /\ UNCHANGED exit_code
    /\ UNCHANGED <<parameters, order, result>>

FloatArm ==
    \/ \E val \in Tokens : FloatArmSome(val)
    \/ FloatArmNone

\* lines 408-424
StringArmSome(val) ==
    /\ InArm("String")
    /\ NextSome
    /\ IF Len(val) = 0
       THEN IF Cur.allow_empty = FALSE
            THEN Failed("No value passed") /\ Break
            ELSE Untouched /\ Continue
       ELSE Stored(PVString(val)) /\ Continue
    /\ UNCHANGED <<parameters, order, exit_code, result>>

\* lines 425-431
StringArmNone ==
    /\ InArm("String")
    /\ NextNone
    /\ IF Cur.allow_empty = FALSE
       THEN Failed("No value passed") /\ Break
       ELSE Untouched /\ Continue
    /\ UNCHANGED <<parameters, order, exit_code, result>>

StringArm ==
    \/ \E val \in Tokens : StringArmSome(val)
    \/ StringArmNone

\* lines 433-461
BoolArmSome(val) ==
    /\ InArm("Bool")
    /\ NextSome
    /\ IF Len(val) = 0
       THEN IF Cur.allow_empty = FALSE
            THEN Failed("No value passed") /\ Break
            ELSE Untouched /\ Continue
       ELSE IF ParseBool(val).ok
            THEN Stored(PVBool(ParseBool(val).val)) /\ Continue
            ELSE Failed("Unable to convert to bool") /\ Break
    /\ UNCHANGED <<parameters, order, exit_code, result>>

\* lines 462-468
BoolArmNone ==
    /\ InArm("Bool")
    /\ NextNone
    /\ IF Cur.allow_empty = FALSE
       THEN Failed("No value passed") /\ Break
       ELSE Untouched /\ Continue
    /\ UNCHANGED <<parameters, order, exit_code, result>>

BoolArm ==
    \/ \E val \in Tokens : BoolArmSome(val)
    \/ BoolArmNone

\* lines 484-485: PathBuf::new() followed by push(val)
PathFrom(val) == val

\* lines 470-488
PathArmSome(val) ==
    /\ InArm("Path")
    /\ NextSome
    /\ IF Len(val) = 0
       THEN IF Cur.allow_empty = FALSE
            THEN Failed("No value passed") /\ Break
            ELSE Untouched /\ Continue
       ELSE Stored(PVPath(PathFrom(val))) /\ Continue
    /\ UNCHANGED <<parameters, order, exit_code, result>>

\* lines 489-495
PathArmNone ==
    /\ InArm("Path")
    /\ NextNone
    /\ IF Cur.allow_empty = FALSE
       THEN Failed("No value passed") /\ Break
       ELSE Untouched /\ Continue
    /\ UNCHANGED <<parameters, order, exit_code, result>>

PathArm ==
    \/ \E val \in Tokens : PathArmSome(val)
    \/ PathArmNone

(***************************************************************************)
(* parse_command_line after the loop: lines 512-520.                       *)
(***************************************************************************)
\* check_if_parse_all_arg: the parameters it prints as not set
NotSet ==
    {n \in DOMAIN parameters :
        /\ heap[parameters[n]].allow_empty = FALSE
        /\ is_none(heap[parameters[n]].value)}

check_if_parse_all_arg == NotSet = {}

\* AbortExit leaving with the status of the missing-parameter exit
AbortExitOtherStatus ==
    /\ pc = "after_loop"
    /\ abort_flag
    /\ report' = "help"
    /\ exit_code' = ExitMissing
    /\ pc' = "exited"
    /\ UNCHANGED <<heap, parameters, abort_flag, order, pos, ended, arg, idx,
                   parameter_exists, result>>

\* lines 512-515
AbortExit ==
    /\ pc = "after_loop"
    /\ abort_flag
    /\ report' = "help"
    /\ exit_code' = ExitAbort
    /\ pc' = "exited"
    /\ UNCHANGED <<heap, parameters, abort_flag, order, pos, ended, arg, idx,
                   parameter_exists, result>>

\* lines 516-519, check_if_parse_all_arg returning false
MissingExit ==
    /\ pc = "after_loop"
    /\ abort_flag = FALSE
    /\ check_if_parse_all_arg = FALSE
    /\ abort_flag' = TRUE
    /\ report' = "is no set"
    /\ exit_code' = ExitMissing
    /\ pc' = "exited"
    /\ UNCHANGED <<heap, parameters, order, pos, ended, arg, idx,
                   parameter_exists, result>>

\* line 520: parse_command_line returns
ParseReturn ==
    /\ pc = "after_loop"
    /\ abort_flag = FALSE
    /\ check_if_parse_all_arg
    /\ report' = "none"
    /\ pc' = "returned"
    /\ UNCHANGED <<heap, parameters, abort_flag, order, pos, ended, arg, idx,
                   parameter_exists, exit_code, result>>

Next ==
    \/ \E c \in RegCalls : add_parameter_detail(c)
    \/ \E h \in DOMAIN heap, kind \in Accessors : Access(h, kind)
    \/ ResultUsed
    \/ ParseStart
    \/ LoopEnd
    \/ MatchHelp
    \/ MatchH
    \/ MatchVersion
    \/ MatchV
    \/ MatchArg
    \/ FlagArm
    \/ IntegerArm
    \/ FloatArm
    \/ StringArm
    \/ BoolArm
    \/ PathArm
    \/ AbortExit
    \/ MissingExit
    \/ ParseReturn

Spec == Init /\ [][Next]_vars

(***************************************************************************)
(* Properties.                                                             *)
(***************************************************************************)
\* a registered parameter
Registered(h) == \E n \in DOMAIN parameters : parameters[n] = h

\* some arm consumed val as the value token of the current parameter
ValueArmSome(val) ==
    \/ IntegerArmSome(val)
    \/ FloatArmSome(val)
    \/ StringArmSome(val)
    \/ BoolArmSome(val)
    \/ PathArmSome(val)

\* some arm found no token after the alias
ValueArmNone ==
    \/ IntegerArmNone
    \/ FloatArmNone
    \/ StringArmNone
    \/ BoolArmNone
    \/ PathArmNone

\* C1: while the token under examination matches an alias of a registered
\* Flag parameter, the parser consumes no further token: every step of the
\* handling of that token leaves the argument iterator where it is, so the
\* next token is examined by the token loop itself.
C1_FlagNeverEatsToken ==
    [][ ( /\ pc = "for"
          /\ \E n \in DOMAIN parameters :
                /\ heap[parameters[n]].parameter_type = "Flag"
                /\ Contains(heap[parameters[n]].aliases, arg) )
        => (pos' = pos /\ ended' = ended) ]_vars

\* C2: one alias token selects one parameter: once a parameter has matched
\* the token under examination, the handling of that token writes no other
\* parameter's value and consumes no further token.
C2_OneAliasOneParameter ==
    [][ (pc = "for" /\ parameter_exists)
        => (heap' = heap /\ pos' = pos /\ ended' = ended) ]_vars

\* C3: for each value-taking type, an empty value token after the alias of a
\* parameter with allow_empty = true leaves the stored value untouched, does
\* not set the abort flag, and parsing goes on.
C3_EmptyValueAllowed ==
    [][ (ValueArmSome(TokEmpty) /\ Cur.allow_empty)
        => ( /\ heap' = heap
             /\ abort_flag' = abort_flag
             /\ pc' \in {"for", "loop"} ) ]_vars

\* C4: for each value-taking type, an alias of a parameter with
\* allow_empty = false that is the last token sets the abort flag, and the
\* process goes on to the abort exit (it does not end in any other way).
C4_MissingValueAborts ==
    [][ (ValueArmNone /\ Cur.allow_empty = FALSE)
        => ( /\ abort_flag' = TRUE
             /\ report' = "No value passed"
             /\ pc' = "loop"
             /\ exit_code' = exit_code ) ]_vars

ControlStep == MatchHelp \/ MatchH \/ MatchVersion \/ MatchV

AllAtDefault(hp) == \A h \in DOMAIN hp : hp[h].value = hp[h].default_value

\* C5: a control token (--help, --h, --version, --v) sets the abort flag and
\* ends the token loop at once; after the loop has ended no token is consumed
\* and no value is written; when the control token is the first token, every
\* parameter still has its declared default.
C5_ControlStopsAtOnce ==
    [][ /\ ControlStep
           => ( /\ abort_flag' = TRUE
                /\ pc' = "after_loop"
                /\ heap' = heap
                /\ (pos = 0 => AllAtDefault(heap')) )
        /\ pc \in {"after_loop", "exited"}
           => (pos' = pos /\ ended' = ended /\ heap' = heap) ]_vars

\* C5 witness: --help as the only token so far, with a parameter registered
\* whose default is not None
C5_Witness ==
    /\ pc = "after_loop"
    /\ report = "help"
    /\ pos = 1
    /\ \E h \in DOMAIN heap : Registered(h) /\ heap[h].default_value # PVNone

RequiredUnset ==
    \E n \in DOMAIN parameters :
        /\ heap[parameters[n]].allow_empty = FALSE
        /\ heap[parameters[n]].value.tag = "None"

Latest(h) ==
    \A k \in DOMAIN heap :
        k > h => heap[k].parameter_name # heap[h].parameter_name

\* C7 as claimed: after parse has returned, the value read through any handle
\* equals the value get_parameter_value reports for the handle's name.
C7_EveryHandleBound ==
    pc = "returned" =>
        \A h \in DOMAIN heap :
            /\ get_parameter_value(heap[h].parameter_name).some
            /\ get_parameter_value(heap[h].parameter_name).value = heap[h].value

\* C7 amended: at every moment the handle of the latest registration under a
\* name reads the value get_parameter_value reports for that name; a handle
\* of an earlier registration under the same name reads the default it was
\* registered with.
C7_LatestHandleBound ==
    \A h \in DOMAIN heap :
        IF Latest(h)
        THEN /\ get_parameter_value(heap[h].parameter_name).some
             /\ get_parameter_value(heap[h].parameter_name).value = heap[h].value
        ELSE heap[h].value = heap[h].default_value

\* C7 witness: a name registered twice, parse has returned and has stored a
\* value in the entry of the second registration
C7_Witness ==
    /\ pc = "returned"
    /\ \E h, k \in DOMAIN heap :
        /\ h < k
        /\ heap[h].parameter_name = heap[k].parameter_name
        /\ Latest(k)
        /\ heap[k].value # heap[k].default_value

Count(seq, x) == Cardinality({i \in DOMAIN seq : seq[i] = x})
AtLeastOne(n) == IF n > 1 THEN n ELSE 1

\* C8 as claimed: every parameter's alias list holds /name exactly once and
\* --name exactly once.
C8_CanonicalExactlyOnce ==
    \A h \in DOMAIN heap :
        /\ Count(heap[h].aliases, <<"/">> \o heap[h].parameter_name) = 1
        /\ Count(heap[h].aliases, <<"-", "-">> \o heap[h].parameter_name) = 1

\* C8 amended: a registration call yields an alias list that holds /name and
\* --name, each exactly once unless the caller's list already held it more
\* than once, and then as often as the caller's list held it.
C8_CanonicalOnceUnlessGiven ==
    [][ \A c \in RegCalls :
          add_parameter_detail(c) =>
            LET al == heap'[Len(heap')].aliases
                a1 == <<"/">> \o c.parameter_name
                a2 == <<"-", "-">> \o c.parameter_name
            IN  /\ Count(al, a1) = AtLeastOne(Count(c.aliases, a1))
                /\ Count(al, a2) = AtLeastOne(Count(c.aliases, a2)) ]_vars

\* C8 witness: a parameter registered with a list naming /name twice and
\* --name once
C8_Witness ==
    \E h \in DOMAIN heap :
        /\ Count(heap[h].aliases, <<"/">> \o heap[h].parameter_name) > 1
        /\ Count(heap[h].aliases, <<"-", "-">> \o heap[h].parameter_name) = 1

WantedTag(kind) ==
    CASE kind = "to_int_value"    -> "Integer"
      [] kind = "to_float_value"  -> "Float"
      [] kind = "to_path_value"   -> "Path"
      [] kind = "to_string_value" -> "String"
      [] kind = "to_bool_value"   -> "Bool"

ZeroValue(kind) ==
    CASE kind = "to_int_value"    -> <<"0">>
      [] kind = "to_float_value"  -> <<"0">>
      [] kind = "to_path_value"   -> <<>>
      [] kind = "to_string_value" -> <<>>
      [] kind = "to_bool_value"   -> <<"f", "a", "l", "s", "e">>

\* C9: a typed accessor returns the zero value of its type on None with
\* allow_empty, a "value not set" error on None without it, a "wrong value
\* type" error on a value of another tag, and the payload otherwise; the call
\* changes neither the stored values nor the abort flag and does not end the
\* process.
C9_AccessorContract ==
    [][ \A h \in DOMAIN heap, kind \in Accessors :
          Access(h, kind) =>
            /\ result'.ret =
                 IF heap[h].value.tag = "None"
                 THEN IF heap[h].allow_empty
                      THEN [ok |-> TRUE, val |-> ZeroValue(kind), err |-> "none"]
                      ELSE [ok |-> FALSE, val |-> <<>>, err |-> "is None Value"]
                 ELSE IF heap[h].value.tag # WantedTag(kind)
                      THEN [ok |-> FALSE, val |-> <<>>, err |-> "wrong value type"]
                      ELSE [ok |-> TRUE, val |-> heap[h].value.val, err |-> "none"]
            /\ heap' = heap
            /\ abort_flag' = abort_flag
            /\ pc' = pc
            /\ exit_code' = exit_code ]_vars

\* C9 witness: after parse returned, to_int_value was called on a parameter
\* that holds a value of another tag
C9_Witness ==
    /\ pc = "returned"
    /\ result.kind = "to_int_value"
    /\ result.ret.err = "wrong value type"

\* the tokens of the model that are integers of the signed 64-bit range, and
\* the integer each denotes
IntegerTokens == {TokPlus07, TokI64Max}
IntegerOf(tok) == IF tok = TokPlus07 THEN <<"7">> ELSE tok

IntegerTokenOutcome(val) ==
    IF val \in IntegerTokens
    THEN /\ to_int_value(heap'[CurH]) =
              [ok |-> TRUE, val |-> IntegerOf(val), err |-> "none"]
         /\ abort_flag' = abort_flag
    ELSE /\ heap' = heap
         /\ abort_flag' = TRUE
         /\ report' = "Unable to convert to integer"

ArmReports ==
    {"none", "No value passed", "Unable to convert to integer",
     "Unable to convert to float", "Unable to convert to bool"}

\* the token taken by the current arm is the one right after the alias: no
\* parameter handled earlier in this pass of the for loop took a value token
\* (a Flag takes none)
FollowsItsAlias ==
    \A j \in DOMAIN order :
        (j < idx /\ MatchesAt(j, arg))
            => heap[parameters[order[j]]].parameter_type = "Flag"

\* val was consumed as the value of the current parameter and as nothing
\* else: it is the token after the alias, one token was taken, it was not
\* handled as a control token or as an unknown alias, no other parameter
\* changed, and a String parameter holds the text as it is
OnlyAValue(val) ==
    /\ FollowsItsAlias
    /\ pos' = pos + 1
    /\ report' \in ArmReports
    /\ pc' \in {"loop", "for"}
    /\ \A h \in DOMAIN heap : h # CurH => heap'[h] = heap[h]
    /\ (Cur.parameter_type = "String" /\ val # TokEmpty)
          => heap'[CurH].value = PVString(val)

\* C11 as claimed: a token consumed as the value of a value-taking parameter,
\* whatever its text (--help, --version and aliases of registered parameters
\* included), only serves as the value of the parameter whose alias preceded
\* it, and the next token examined as a control token or an alias is the one
\* after it.
C11_ValueTokenOnlyValue ==
    [][ \A val \in Tokens : ValueArmSome(val) => OnlyAValue(val) ]_vars

\* the token loop is running (lines 303-510) with the abort flag set, which
\* only a missing value or a conversion failure of an arm leaves behind: a
\* control token and an unknown parameter leave the loop as they set it
FailedInLoop ==
    /\ abort_flag
    /\ pc \in {"loop", "for"}

\* C12 as claimed: once a conversion failure or a missing-value failure has
\* set the abort flag during the token loop, the loop stops: no later token
\* of the argument list is consumed and no parameter value is written, so
\* the values at exit are those stored before the first failure.
C12_FailFast ==
    [][ FailedInLoop => (pos' = pos /\ heap' = heap) ]_vars

\* the tag that corresponds to a declared type: the variants of
\* ParameterValue other than None bear the names of those of ParameterType
TagOfType(type) == type

\* the value of the parameter h is its declared default or has the tag of
\* its declared type
DefaultOrTyped(h) ==
    \/ heap[h].value = heap[h].default_value
    \/ heap[h].value.tag = TagOfType(heap[h].parameter_type)

\* C13: in every state, during and after parse, the current value of each
\* registered parameter is still its declared default or carries the tag of
\* the parameter's declared type; the parser never stores a value whose tag
\* differs from the declared type.
C13_TypeTagInvariant ==
    \A h \in DOMAIN heap : Registered(h) => DefaultOrTyped(h)

\* C13 witness: parse returned with a registered parameter whose value the
\* parser wrote over a default that is not None: the value differs from the
\* default and has the tag of the declared type
C13_Witness ==
    /\ pc = "returned"
    /\ \E h \in DOMAIN heap :
        /\ Registered(h)
        /\ ~is_none(heap[h].default_value)
        /\ heap[h].value # heap[h].default_value
        /\ heap[h].value.tag = TagOfType(heap[h].parameter_type)

====
